---- MODULE Spec2Model ----
(***************************************************************************)
(* The MQTT frontend of mopidy-mqtt (src/mopidy_mqtt/frontend.py): a pykka *)
(* actor that forwards bus commands to the Mopidy core (its on_action     *)
(* handlers) and republishes the core's events on the bus.                 *)
(*                                                                         *)
(* All text is a TLA+ string; characters are taken with SubSeq.            *)
(***************************************************************************)
EXTENDS Integers, Sequences, FiniteSets, TLC

VARIABLES
    actor,           \* pykka lifecycle of the frontend: created/running/stopped/failed
    bus,             \* self.mqtt (Comms): [open, starts, stops]
    mixer_volume,    \* core.mixer volume, owned by the player
    playback_state,  \* core.playback state, owned by the player
    tracklist,       \* core.tracklist, the queue of URIs
    last,            \* the step taken last: [op, arg]
    before,          \* the player as it was when the last step began
    calls,           \* the core API calls the last step made, in order
    published,       \* the self.mqtt.publish calls the last step made, in order
    log,             \* the warnings and errors the last step logged
    raised,          \* the exception the last step let escape, or "none"
    pending,         \* the handler the bus thread is inside of: [op, value, reads]
    events,          \* the core events handled so far, in order (SpecPub)
    outbox           \* the messages handed to Comms.publish so far, in order (SpecPub)

vars == <<actor, bus, mixer_volume, playback_state, tracklist,
          last, before, calls, published, log, raised, pending, events, outbox>>

-----------------------------------------------------------------------------
(* Program constants and the bounds of the model *)

VOLUME_MAX == 100
VOLUME_MIN == 0

\* longest vol payload explored character by character (SpecVol)
MaxLen == 4
\* longest tracklist explored
MaxQueue == 2
\* longest run of core events whose messages are recorded (SpecPub)
MaxEvents == 3

PLAYING == "playing"
PAUSED == "paused"
STOPPED == "stopped"
PlaybackState == {STOPPED, PLAYING, PAUSED}

\* the characters vol payloads are built from
VolChars == {"=", "+", "-", "0", "1", " ", "_"}

\* the inputs of the full bridge specification
VolumeSamples == {0, 50, 95, 100}
PlbValues == {"play", "stop", "pause", "resume", "toggle", "prev", "next",
              "", "PLAY", "bogus"}
VolValues == {"=50", "+50", "-50", "=101", "=-5", "+-50", "", "=", "5", "x5", "+x"}
AddValues == {"", "u1", "u2"}
LoaValues == {"", "pl1"}
ClrValues == {"", "x"}
SrcValues == {"", "q"}
InfValues == {"state", "volume", "queue", "", "bogus"}
Tracks == {[name |-> "n1", uri |-> "u1"], [name |-> "", uri |-> "u2"]}
TlTracks == {[tlid |-> 1, track |-> t] : t \in Tracks}
Titles == {"Artist - Title", ""}
TimePositions == {0, 1000}

-----------------------------------------------------------------------------
(* Python's str primitives *)

Char(s, i) == SubSeq(s, i, i)
Rest(s) == SubSeq(s, 2, Len(s))

\* the characters int() takes as decimal digits, among those a string of the
\* model can hold (U+0000 to U+00FF)
Digits == {"0", "1", "2", "3", "4", "5", "6", "7", "8", "9"}
\* the characters int() skips around the number: tab, line feed, vertical tab,
\* form feed, carriage return and space, then U+0085 and U+00A0
Whitespace == {" ", "\t", "\n", "\r", "\f", "", "", " "}

DigitVal(c) ==
    CASE c = "0" -> 0 [] c = "1" -> 1 [] c = "2" -> 2 [] c = "3" -> 3
      [] c = "4" -> 4 [] c = "5" -> 5 [] c = "6" -> 6 [] c = "7" -> 7
      [] c = "8" -> 8 [] c = "9" -> 9

DigitChar(d) ==
    CASE d = 0 -> "0" [] d = 1 -> "1" [] d = 2 -> "2" [] d = 3 -> "3"
      [] d = 4 -> "4" [] d = 5 -> "5" [] d = 6 -> "6" [] d = 7 -> "7"
      [] d = 8 -> "8" [] d = 9 -> "9"

RECURSIVE LStrip(_)
LStrip(s) ==
    IF Len(s) > 0 /\ Char(s, 1) \in Whitespace THEN LStrip(Rest(s)) ELSE s

RECURSIVE RStrip(_)
RStrip(s) ==
    IF Len(s) > 0 /\ Char(s, Len(s)) \in Whitespace
    THEN RStrip(SubSeq(s, 1, Len(s) - 1))
    ELSE s

\* the digits of int()'s argument once stripped and unsigned: digits, with
\* single underscores allowed between two digits
IntBodyOk(s) ==
    /\ Len(s) > 0
    /\ Char(s, 1) \in Digits
    /\ Char(s, Len(s)) \in Digits
    /\ \A i \in 1..Len(s) : Char(s, i) \in Digits \cup {"_"}
    /\ \A i \in 1..(Len(s) - 1) : ~(Char(s, i) = "_" /\ Char(s, i + 1) = "_")

RECURSIVE IntBodyVal(_, _)
IntBodyVal(s, acc) ==
    IF Len(s) = 0 THEN acc
    ELSE IF Char(s, 1) = "_" THEN IntBodyVal(Rest(s), acc)
    ELSE IntBodyVal(Rest(s), 10 * acc + DigitVal(Char(s, 1)))

\* int(s) of a str: [ok |-> FALSE] stands for ValueError
py_int(s) ==
    LET t == RStrip(LStrip(s))
        signed == Len(t) > 0 /\ Char(t, 1) \in {"+", "-"}
        body == IF signed THEN Rest(t) ELSE t
    IN  IF IntBodyOk(body)
        THEN [ok |-> TRUE,
              n |-> IF signed /\ Char(t, 1) = "-"
                    THEN 0 - IntBodyVal(body, 0)
                    ELSE IntBodyVal(body, 0)]
        ELSE [ok |-> FALSE, n |-> 0]

RECURSIVE NatStr(_)
NatStr(n) ==
    IF n < 10 THEN DigitChar(n) ELSE NatStr(n \div 10) \o DigitChar(n % 10)

\* str(n) of an int
py_str(n) == IF n < 0 THEN "-" \o NatStr(0 - n) ELSE NatStr(n)

-----------------------------------------------------------------------------
(* The collaborators: the core (player) and Comms (the bus) *)

Player == [volume |-> mixer_volume, state |-> playback_state,
           tracklist |-> tracklist]

Call(m, v) == [call |-> m, value |-> v]
Msg(subtopic, value) == [topic |-> subtopic, payload |-> value]
Warn(m) == [level |-> "warn", msg |-> m]

\* what one call does to the player; playback calls change the player's state
\* on the player's own time (PlaybackChanges)
CoreApply(p, c) ==
    CASE c.call = "mixer.set_volume" -> [p EXCEPT !.volume = c.value]
      [] c.call = "tracklist.add" -> [p EXCEPT !.tracklist = Append(@, c.value)]
      [] c.call = "tracklist.clear" -> [p EXCEPT !.tracklist = <<>>]
      [] OTHER -> p

RECURSIVE CoreApplyAll(_, _)
CoreApplyAll(p, cs) ==
    IF cs = <<>> THEN p ELSE CoreApplyAll(CoreApply(p, Head(cs)), Tail(cs))

describe_track(track) == "track:" \o track.name \o ";" \o track.uri
describe_stream(title) == "stream:" \o title \o ";"

\* Comms.start / Comms.stop / Comms.publish
mqtt_start(b) == [b EXCEPT !.open = TRUE, !.starts = @ + 1]
mqtt_stop(b) == [b EXCEPT !.open = FALSE, !.stops = @ + 1]
mqtt_publish(subtopic, value) == <<Msg(subtopic, value)>>

\* what a handler did: its core calls, its publishes, its log lines and the
\* exception it let escape
Effect(cs, ps, ls, exc) == [calls |-> cs, published |-> ps, log |-> ls, raised |-> exc]

-----------------------------------------------------------------------------
(* The volume property and current_state *)

volume_get(v) == <<Call("mixer.get_volume", v)>>

\* volume_set without the min(value, VOLUME_MAX) line
volume_set_no_max(value) ==
    LET v2 == IF value > VOLUME_MIN THEN value ELSE VOLUME_MIN
    IN  <<Call("mixer.set_volume", v2)>>

\* volume_set without the max(value, VOLUME_MIN) line
volume_set_no_min(value) ==
    LET v1 == IF value < VOLUME_MAX THEN value ELSE VOLUME_MAX
    IN  <<Call("mixer.set_volume", v1)>>

volume_set(value) ==
    LET v1 == IF value < VOLUME_MAX THEN value ELSE VOLUME_MAX
        v2 == IF v1 > VOLUME_MIN THEN v1 ELSE VOLUME_MIN
    IN  <<Call("mixer.set_volume", v2)>>

current_state(s) == <<Call("playback.get_state", s)>>

-----------------------------------------------------------------------------
(* The command handlers, as what they do given the values the player       *)
(* returns to their queries                                                *)

\* on_action_plb with toggle calling play() on a paused player
on_action_plb_toggle_restarts(value, states) ==
    LET q1 == current_state(states[1])
        q2 == q1 \o current_state(states[2])
        q3 == q2 \o current_state(states[3])
        unknown == <<Warn("Unknown playback control action")>>
    IN  IF value = "play" THEN Effect(<<Call("playback.play", "")>>, <<>>, <<>>, "none")
        ELSE IF value = "stop" THEN Effect(<<Call("playback.stop", "")>>, <<>>, <<>>, "none")
        ELSE IF value = "pause" THEN Effect(<<Call("playback.pause", "")>>, <<>>, <<>>, "none")
        ELSE IF value = "resume" THEN Effect(<<Call("playback.resume", "")>>, <<>>, <<>>, "none")
        ELSE IF value = "toggle" THEN
            IF states[1] = PLAYING
            THEN Effect(q1 \o <<Call("playback.pause", "")>>, <<>>, <<>>, "none")
            ELSE IF states[2] = PAUSED
            THEN Effect(q2 \o <<Call("playback.play", "")>>, <<>>, <<>>, "none")
            ELSE IF states[3] = STOPPED
            THEN Effect(q3 \o <<Call("playback.play", "")>>, <<>>, <<>>, "none")
            ELSE Effect(q3, <<>>, unknown, "none")
        ELSE IF value = "prev" THEN Effect(<<Call("playback.previous", "")>>, <<>>, <<>>, "none")
        ELSE IF value = "next" THEN Effect(<<Call("playback.next", "")>>, <<>>, <<>>, "none")
        ELSE Effect(<<>>, <<>>, unknown, "none")

\* on_action_plb with prev calling next()
on_action_plb_prev_is_next(value, states) ==
    LET q1 == current_state(states[1])
        q2 == q1 \o current_state(states[2])
        q3 == q2 \o current_state(states[3])
        unknown == <<Warn("Unknown playback control action")>>
    IN  IF value = "play" THEN Effect(<<Call("playback.play", "")>>, <<>>, <<>>, "none")
        ELSE IF value = "stop" THEN Effect(<<Call("playback.stop", "")>>, <<>>, <<>>, "none")
        ELSE IF value = "pause" THEN Effect(<<Call("playback.pause", "")>>, <<>>, <<>>, "none")
        ELSE IF value = "resume" THEN Effect(<<Call("playback.resume", "")>>, <<>>, <<>>, "none")
        ELSE IF value = "toggle" THEN
            IF states[1] = PLAYING
            THEN Effect(q1 \o <<Call("playback.pause", "")>>, <<>>, <<>>, "none")
            ELSE IF states[2] = PAUSED
            THEN Effect(q2 \o <<Call("playback.resume", "")>>, <<>>, <<>>, "none")
            ELSE IF states[3] = STOPPED
            THEN Effect(q3 \o <<Call("playback.play", "")>>, <<>>, <<>>, "none")
            ELSE Effect(q3, <<>>, unknown, "none")
        ELSE IF value = "prev" THEN Effect(<<Call("playback.next", "")>>, <<>>, <<>>, "none")
        ELSE IF value = "next" THEN Effect(<<Call("playback.next", "")>>, <<>>, <<>>, "none")
        ELSE Effect(<<>>, <<>>, unknown, "none")

\* on_action_plb; states[i] is what the i-th current_state query returns
on_action_plb(value, states) ==
    LET q1 == current_state(states[1])
        q2 == q1 \o current_state(states[2])
        q3 == q2 \o current_state(states[3])
        unknown == <<Warn("Unknown playback control action")>>
    IN  IF value = "play" THEN Effect(<<Call("playback.play", "")>>, <<>>, <<>>, "none")
        ELSE IF value = "stop" THEN Effect(<<Call("playback.stop", "")>>, <<>>, <<>>, "none")
        ELSE IF value = "pause" THEN Effect(<<Call("playback.pause", "")>>, <<>>, <<>>, "none")
        ELSE IF value = "resume" THEN Effect(<<Call("playback.resume", "")>>, <<>>, <<>>, "none")
        ELSE IF value = "toggle" THEN
            IF states[1] = PLAYING
            THEN Effect(q1 \o <<Call("playback.pause", "")>>, <<>>, <<>>, "none")
            ELSE IF states[2] = PAUSED
            THEN Effect(q2 \o <<Call("playback.resume", "")>>, <<>>, <<>>, "none")
            ELSE IF states[3] = STOPPED
            THEN Effect(q3 \o <<Call("playback.play", "")>>, <<>>, <<>>, "none")
            ELSE Effect(q3, <<>>, unknown, "none")
        ELSE IF value = "prev" THEN Effect(<<Call("playback.previous", "")>>, <<>>, <<>>, "none")
        ELSE IF value = "next" THEN Effect(<<Call("playback.next", "")>>, <<>>, <<>>, "none")
        ELSE Effect(<<>>, <<>>, unknown, "none")

\* on_action_vol; current is what the volume getter returns when it is asked
on_action_vol(value, current) ==
    IF Len(value) < 2
    THEN Effect(<<>>, <<>>, <<Warn("Invalid volume control parameter")>>, "none")
    ELSE
        LET operator == Char(value, 1)
            amount == py_int(Rest(value))
        IN  IF ~amount.ok
            THEN Effect(<<>>, <<>>, <<Warn("Invalid volume setting value")>>, "none")
            ELSE IF operator = "="
            THEN Effect(volume_set(amount.n), <<>>, <<>>, "none")
            ELSE IF operator = "-"
            THEN Effect(volume_get(current) \o volume_set(current - amount.n),
                        <<>>, <<>>, "none")
            ELSE IF operator = "+"
            THEN Effect(volume_get(current) \o volume_set(current + amount.n),
                        <<>>, <<>>, "none")
            ELSE Effect(<<>>, <<>>, <<Warn("Unknown volume control operator")>>, "none")

\* on_action_add without the test for an empty value
on_action_add_accepts_empty(value) ==
    Effect(<<Call("tracklist.add", value)>>, <<>>, <<>>, "none")

\* on_action_add answering an empty value on the bus
on_action_add_replies(value) ==
    IF Len(value) = 0
    THEN Effect(<<>>, mqtt_publish("add", "error"),
                <<Warn("Cannot add empty track to queue")>>, "none")
    ELSE Effect(<<Call("tracklist.add", value)>>, <<>>, <<>>, "none")

on_action_add(value) ==
    IF Len(value) = 0
    THEN Effect(<<>>, <<>>, <<Warn("Cannot add empty track to queue")>>, "none")
    ELSE Effect(<<Call("tracklist.add", value)>>, <<>>, <<>>, "none")

on_action_loa(value) ==
    IF Len(value) = 0
    THEN Effect(<<>>, <<>>, <<Warn("Cannot load unnamed playlist")>>, "none")
    ELSE Effect(<<Call("tracklist.clear", "")>>, <<>>, <<>>, "NotImplementedError")

\* on_action_clr clearing only when it is given no value
on_action_clr_only_empty(value) ==
    IF Len(value) = 0
    THEN Effect(<<Call("tracklist.clear", "")>>, <<>>, <<>>, "none")
    ELSE Effect(<<>>, <<>>, <<>>, "none")

on_action_clr(value) == Effect(<<Call("tracklist.clear", "")>>, <<>>, <<>>, "none")

on_action_src(value) ==
    IF Len(value) = 0
    THEN Effect(<<>>, <<>>, <<Warn("Cannot search without a query")>>, "none")
    ELSE Effect(<<>>, <<>>, <<>>, "NotImplementedError")

\* on_action_inf publishing the volume on the state topic
on_action_inf_volume_on_sta(value, state, current) ==
    IF value = "state"
    THEN Effect(current_state(state), mqtt_publish("sta", state), <<>>, "none")
    ELSE IF value = "volume"
    THEN Effect(volume_get(current), mqtt_publish("sta", py_str(current)), <<>>, "none")
    ELSE IF value = "queue"
    THEN Effect(<<>>, <<>>, <<>>, "NotImplementedError")
    ELSE Effect(<<>>, <<>>, <<Warn("Unkown information request")>>, "none")

on_action_inf(value, state, current) ==
    IF value = "state"
    THEN Effect(current_state(state), mqtt_publish("sta", state), <<>>, "none")
    ELSE IF value = "volume"
    THEN Effect(volume_get(current), mqtt_publish("vol", py_str(current)), <<>>, "none")
    ELSE IF value = "queue"
    THEN Effect(<<>>, <<>>, <<>>, "NotImplementedError")
    ELSE Effect(<<>>, <<>>, <<Warn("Unkown information request")>>, "none")

-----------------------------------------------------------------------------
(* The event callbacks of CoreListener *)

playback_state_changed(old_state, new_state) ==
    Effect(<<>>, mqtt_publish("sta", new_state), <<>>, "none")

\* track_playback_started publishing what track_playback_ended publishes
track_playback_started_empty(tl_track) ==
    Effect(<<>>, mqtt_publish("trk", ""), <<>>, "none")

track_playback_started(tl_track) ==
    Effect(<<>>, mqtt_publish("trk", describe_track(tl_track.track)), <<>>, "none")

\* track_playback_ended publishing the description of the track that ended
track_playback_ended_describes(tl_track, time_position) ==
    Effect(<<>>, mqtt_publish("trk", describe_track(tl_track.track)), <<>>, "none")

track_playback_ended(tl_track, time_position) ==
    Effect(<<>>, mqtt_publish("trk", ""), <<>>, "none")

volume_changed(volume) ==
    Effect(<<>>, mqtt_publish("vol", py_str(volume)), <<>>, "none")

\* stream_title_changed publishing the title as it came
stream_title_changed_raw(title) ==
    Effect(<<>>, mqtt_publish("trk", title), <<>>, "none")

stream_title_changed(title) ==
    Effect(<<>>, mqtt_publish("trk", describe_stream(title)), <<>>, "none")

-----------------------------------------------------------------------------
(* The state machine *)

\* the bus thread is in no handler
NoPending == [op |-> "none", value |-> "", reads |-> <<>>]

Init ==
    /\ actor = "created"
    /\ bus = [open |-> FALSE, starts |-> 0, stops |-> 0]
    /\ mixer_volume \in VolumeSamples
    /\ playback_state \in PlaybackState
    /\ tracklist = <<>>
    /\ last = [op |-> "init", arg |-> ""]
    /\ before = Player
    /\ calls = <<>>
    /\ published = <<>>
    /\ log = <<>>
    /\ raised = "none"
    /\ pending = NoPending
    /\ events = <<>>
    /\ outbox = <<>>

\* the bus client hands messages to the frontend once Comms.start has
\* subscribed; it does so on its own thread, so a message it has taken can still
\* be dispatched when the actor has stopped
BusDelivers == bus.starts > 0

\* pykka runs on_start before the actor processes messages and on_stop after
\* its last one: core events reach the callbacks in between
ActorProcesses == actor = "running"

\* a step of the frontend's own lifecycle: it touches no player
Lifecycle(op, ls) ==
    /\ last' = [op |-> op, arg |-> ""]
    /\ before' = Player
    /\ calls' = <<>>
    /\ published' = <<>>
    /\ log' = ls
    /\ raised' = "none"
    /\ UNCHANGED <<mixer_volume, playback_state, tracklist, pending, events, outbox>>

\* on_start without self.mqtt.start()
on_start_without_bus ==
    /\ actor = "created"
    /\ actor' = "running"
    /\ bus' = bus
    /\ Lifecycle("on_start", <<>>)

on_start ==
    /\ actor = "created"
    /\ actor' = "running"
    /\ bus' = mqtt_start(bus)
    /\ Lifecycle("on_start", <<>>)

on_stop ==
    /\ actor = "running"
    /\ actor' = "stopped"
    /\ bus' = mqtt_stop(bus)
    /\ Lifecycle("on_stop", <<>>)

\* an unhandled exception in the actor: pykka calls on_failure and the actor
\* stops; on_stop is not run
on_failure ==
    /\ actor = "running"
    /\ actor' = "failed"
    /\ bus' = bus
    /\ Lifecycle("on_failure", <<[level |-> "error", msg |-> "MQTT frontend failed"]>>)

\* a handler or callback ran: what it did is recorded and its calls reach the player
Ran(op, arg, e) ==
    LET p == CoreApplyAll(Player, e.calls)
    IN  /\ last' = [op |-> op, arg |-> arg]
        /\ before' = Player
        /\ calls' = e.calls
        /\ published' = e.published
        /\ log' = e.log
        /\ raised' = e.raised
        /\ mixer_volume' = p.volume
        /\ playback_state' = p.state
        /\ tracklist' = p.tracklist
        /\ UNCHANGED <<actor, bus>>

\* a handler or callback ran from its first line to its last in one step
Handle(op, arg, e) ==
    /\ Ran(op, arg, e)
    /\ UNCHANGED <<pending, events, outbox>>

\* The handlers that query the player wait for its answer (.get() on the core's
\* future): the core is another actor, and the player can change between two
\* calls of the bus thread. Such a handler takes one step per answer and one
\* more from its last answer to its return.

\* what the toggle branch of on_action_plb has asked once it holds these answers
ToggleDecided(states) ==
    \/ Len(states) = 1 /\ states[1] = PLAYING
    \/ Len(states) = 2 /\ states[2] = PAUSED
    \/ Len(states) = 3

\* the answers not asked for are never looked at
PadStates(states) ==
    [i \in 1..3 |-> IF i <= Len(states) THEN states[i] ELSE states[Len(states)]]

RECURSIVE StateQueries(_)
StateQueries(states) ==
    IF states = <<>> THEN <<>>
    ELSE current_state(Head(states)) \o StateQueries(Tail(states))

\* the next current_state query of plb toggle: the core answers it
Toggle_query ==
    /\ BusDelivers
    /\ pending.op \in {"none", "plb"}
    /\ ~ToggleDecided(pending.reads)
    /\ LET states == pending.reads \o <<playback_state>>
       IN  /\ Ran("plb:query", "toggle",
                  Effect(StateQueries(states), <<>>, <<>>, "none"))
           /\ pending' = [op |-> "plb", value |-> "toggle", reads |-> states]
    /\ UNCHANGED <<events, outbox>>

\* the answers decide: the handler calls the playback method and returns, or
\* falls through to the warning
Toggle_return ==
    /\ pending.op = "plb"
    /\ ToggleDecided(pending.reads)
    /\ Ran("plb", "toggle", on_action_plb("toggle", PadStates(pending.reads)))
    /\ pending' = NoPending
    /\ UNCHANGED <<events, outbox>>

\* the handler asks for the volume when the operator is - or + and the amount
\* an int
ReadsVolume(value) == Len(on_action_vol(value, mixer_volume).calls) = 2

\* self.volume -= amount and self.volume += amount: the getter ...
Vol_read(value) ==
    /\ BusDelivers
    /\ pending.op = "none"
    /\ ReadsVolume(value)
    /\ Ran("vol:read", value, Effect(volume_get(mixer_volume), <<>>, <<>>, "none"))
    /\ pending' = [op |-> "vol", value |-> value, reads |-> <<mixer_volume>>]
    /\ UNCHANGED <<events, outbox>>

\* ... and then the setter
Vol_write ==
    /\ pending.op = "vol"
    /\ Ran("vol", pending.value, on_action_vol(pending.value, pending.reads[1]))
    /\ pending' = NoPending
    /\ UNCHANGED <<events, outbox>>

\* self.mqtt.publish('sta', self.current_state) and
\* self.mqtt.publish('vol', str(self.volume)): the argument is asked first ...
Inf_query(value) ==
    /\ BusDelivers
    /\ pending.op = "none"
    /\ value \in {"state", "volume"}
    /\ Ran("inf:query", value,
           Effect(on_action_inf(value, playback_state, mixer_volume).calls,
                  <<>>, <<>>, "none"))
    /\ pending' = [op |-> "inf", value |-> value,
                   reads |-> <<IF value = "state" THEN playback_state
                                                  ELSE mixer_volume>>]
    /\ UNCHANGED <<events, outbox>>

\* ... and published once the core has answered
Inf_publish ==
    /\ pending.op = "inf"
    /\ Ran("inf", pending.value,
           on_action_inf(pending.value, pending.reads[1], pending.reads[1]))
    /\ pending' = NoPending
    /\ UNCHANGED <<events, outbox>>

\* the bus thread hands the frontend one message at a time: the next handler
\* starts when the one before has returned
Dispatches == BusDelivers /\ pending = NoPending

\* a handler that asks the core nothing runs in one step; one that does runs up
\* to the core's first answer
Command_plb(value) ==
    /\ Dispatches
    /\ IF value = "toggle"
       THEN Toggle_query
       ELSE Handle("plb", value,
                   on_action_plb(value, <<playback_state, playback_state, playback_state>>))

Command_vol(value) ==
    /\ Dispatches
    /\ IF ReadsVolume(value)
       THEN Vol_read(value)
       ELSE Handle("vol", value, on_action_vol(value, mixer_volume))

Command_add(value) ==
    /\ Dispatches
    /\ Len(value) > 0 => Len(tracklist) < MaxQueue
    /\ Handle("add", value, on_action_add(value))

Command_loa(value) ==
    /\ Dispatches
    /\ Handle("loa", value, on_action_loa(value))

Command_clr(value) ==
    /\ Dispatches
    /\ Handle("clr", value, on_action_clr(value))

Command_src(value) ==
    /\ Dispatches
    /\ Handle("src", value, on_action_src(value))

Command_inf(value) ==
    /\ Dispatches
    /\ IF value \in {"state", "volume"}
       THEN Inf_query(value)
       ELSE Handle("inf", value, on_action_inf(value, playback_state, mixer_volume))

\* the core has answered and the bus thread goes on in the handler it is inside of
Handler_resumes ==
    \/ pending.op = "plb" /\ Toggle_query
    \/ Toggle_return
    \/ Vol_write
    \/ Inf_publish

Event_playback_state_changed(old_state, new_state) ==
    /\ ActorProcesses
    /\ Handle("playback_state_changed", new_state,
              playback_state_changed(old_state, new_state))

Event_track_playback_started(tl_track) ==
    /\ ActorProcesses
    /\ Handle("track_playback_started", tl_track, track_playback_started(tl_track))

Event_track_playback_ended(tl_track, time_position) ==
    /\ ActorProcesses
    /\ Handle("track_playback_ended", tl_track,
              track_playback_ended(tl_track, time_position))

Event_volume_changed(volume) ==
    /\ ActorProcesses
    /\ Handle("volume_changed", volume, volume_changed(volume))

Event_stream_title_changed(title) ==
    /\ ActorProcesses
    /\ Handle("stream_title_changed", title, stream_title_changed(title))

\* the player, or another of its clients, changes what the player owns
PlayerChanges(volume, state) ==
    /\ <<volume, state>> # <<mixer_volume, playback_state>>
    /\ mixer_volume' = volume
    /\ playback_state' = state
    /\ last' = [op |-> "player", arg |-> ""]
    /\ before' = Player
    /\ calls' = <<>>
    /\ published' = <<>>
    /\ log' = <<>>
    /\ raised' = "none"
    /\ UNCHANGED <<actor, bus, tracklist, pending, events, outbox>>

Next ==
    \/ on_start
    \/ on_stop
    \/ on_failure
    \/ \E value \in PlbValues : Command_plb(value)
    \/ \E value \in VolValues : Command_vol(value)
    \/ \E value \in AddValues : Command_add(value)
    \/ \E value \in LoaValues : Command_loa(value)
    \/ \E value \in ClrValues : Command_clr(value)
    \/ \E value \in SrcValues : Command_src(value)
    \/ \E value \in InfValues : Command_inf(value)
    \/ Handler_resumes
    \/ \E old_state, new_state \in PlaybackState :
           Event_playback_state_changed(old_state, new_state)
    \/ \E tl_track \in TlTracks : Event_track_playback_started(tl_track)
    \/ \E tl_track \in TlTracks, time_position \in TimePositions :
           Event_track_playback_ended(tl_track, time_position)
    \/ \E volume \in VolumeSamples : Event_volume_changed(volume)
    \/ \E title \in Titles : Event_stream_title_changed(title)
    \/ \E volume \in VolumeSamples, state \in PlaybackState : PlayerChanges(volume, state)

Spec == Init /\ [][Next]_vars

-----------------------------------------------------------------------------
(* The volume handler on every payload of up to MaxLen characters and every *)
(* volume the player can hold: one command on a started frontend, the       *)
(* player's volume changing while the handler waits                         *)

RECURSIVE StringsOfLen(_)
StringsOfLen(n) ==
    IF n = 0 THEN {""} ELSE {s \o c : s \in StringsOfLen(n - 1), c \in VolChars}

VolStrings == UNION {StringsOfLen(n) : n \in 0..MaxLen}

InitVol ==
    /\ actor = "created"
    /\ bus = [open |-> FALSE, starts |-> 0, stops |-> 0]
    /\ mixer_volume \in VOLUME_MIN..VOLUME_MAX
    /\ playback_state = STOPPED
    /\ tracklist = <<>>
    /\ last = [op |-> "init", arg |-> ""]
    /\ before = Player
    /\ calls = <<>>
    /\ published = <<>>
    /\ log = <<>>
    /\ raised = "none"
    /\ pending = NoPending
    /\ events = <<>>
    /\ outbox = <<>>

NextVol ==
    \/ on_start
    \/ /\ last.op = "on_start"
       /\ \E value \in VolStrings : Command_vol(value)
    \/ /\ pending.op = "vol"
       /\ \E volume \in VolumeSamples : PlayerChanges(volume, playback_state)
    \/ Vol_write

SpecVol == InitVol /\ [][NextVol]_vars

-----------------------------------------------------------------------------
(* The event callbacks with what they handle and what they hand to         *)
(* Comms.publish recorded in order, for runs of up to MaxEvents events      *)

Recorded(op, arg, e) ==
    /\ ActorProcesses
    /\ Len(events) < MaxEvents
    /\ Ran(op, arg, e)
    /\ events' = Append(events, [op |-> op, arg |-> arg])
    /\ outbox' = outbox \o e.published
    /\ UNCHANGED pending

Recorded_playback_state_changed(old_state, new_state) ==
    Recorded("playback_state_changed", new_state,
             playback_state_changed(old_state, new_state))

Recorded_track_playback_started(tl_track) ==
    Recorded("track_playback_started", tl_track, track_playback_started(tl_track))

Recorded_track_playback_ended(tl_track, time_position) ==
    Recorded("track_playback_ended", tl_track,
             track_playback_ended(tl_track, time_position))

Recorded_volume_changed(volume) ==
    Recorded("volume_changed", volume, volume_changed(volume))

Recorded_stream_title_changed(title) ==
    Recorded("stream_title_changed", title, stream_title_changed(title))

NextPub ==
    \/ on_start
    \/ \E old_state, new_state \in PlaybackState :
           Recorded_playback_state_changed(old_state, new_state)
    \/ \E tl_track \in TlTracks : Recorded_track_playback_started(tl_track)
    \/ \E tl_track \in TlTracks, time_position \in TimePositions :
           Recorded_track_playback_ended(tl_track, time_position)
    \/ \E volume \in VolumeSamples : Recorded_volume_changed(volume)
    \/ \E title \in Titles : Recorded_stream_title_changed(title)

SpecPub == Init /\ [][NextPub]_vars

-----------------------------------------------------------------------------
(* The two handlers that act on what the player answered, alone with the    *)
(* player's other clients                                                   *)

NextRace ==
    \/ on_start
    \/ Toggle_query
    \/ Toggle_return
    \/ \E value \in VolValues : Vol_read(value)
    \/ Vol_write
    \/ \E volume \in VolumeSamples, state \in PlaybackState : PlayerChanges(volume, state)

SpecRace == Init /\ [][NextRace]_vars

-----------------------------------------------------------------------------
(* What the claims are stated with *)

\* a step named by a command is the one its handler returns in; a handler that
\* waits for the player has steps before it, named by its query
CommandOps == {"plb", "vol", "add", "loa", "clr", "src", "inf"}
QueryOps == {"plb:query", "vol:read", "inf:query"}
EventOps == {"playback_state_changed", "track_playback_started",
             "track_playback_ended", "volume_changed", "stream_title_changed"}

IsSetVolume(c) == c.call = "mixer.set_volume"
SetVolumeCalls(cs) == SelectSeq(cs, IsSetVolume)

IsPlaybackControl(c) ==
    c.call \in {"playback.play", "playback.stop", "playback.pause",
                "playback.resume", "playback.previous", "playback.next"}
PlaybackControlCalls(cs) == SelectSeq(cs, IsPlaybackControl)

Clamp(x) == IF x < 0 THEN 0 ELSE IF x > 100 THEN 100 ELSE x

\* "=N", "+N" or "-N" with N a run of decimal digits
WellFormedVol(value) ==
    /\ Len(value) >= 2
    /\ Char(value, 1) \in {"=", "+", "-"}
    /\ \A i \in 2..Len(value) : Char(value, i) \in Digits

RECURSIVE DecimalValue(_)
DecimalValue(s) ==
    IF Len(s) = 0 THEN 0
    ELSE 10 * DecimalValue(SubSeq(s, 1, Len(s) - 1)) + DigitVal(Char(s, Len(s)))

\* op(V, N) of the command value at volume V
VolTarget(value, V) ==
    LET N == DecimalValue(Rest(value))
    IN  CASE Char(value, 1) = "=" -> N
          [] Char(value, 1) = "+" -> V + N
          [] Char(value, 1) = "-" -> V - N

\* the volume the player gave the handler: the answer to its get_volume, or,
\* for a handler that asks nothing, the volume at its dispatch
VolumeRead ==
    IF calls # <<>> /\ calls[1].call = "mixer.get_volume"
    THEN calls[1].value
    ELSE before.volume

\* C1: a well-formed volume command "=N", "+N" or "-N" dispatched at volume V
\* reads V from the player, when it reads, and writes exactly
\* clamp(op(V, N), 0, 100) to the player.
C1_VolumeCommandClamps ==
    /\ last.op = "vol:read" =>
           /\ calls = <<Call("mixer.get_volume", before.volume)>>
           /\ mixer_volume = before.volume
    /\ (last.op = "vol" /\ WellFormedVol(last.arg)) =>
           /\ SetVolumeCalls(calls) =
                  <<Call("mixer.set_volume", Clamp(VolTarget(last.arg, VolumeRead)))>>
           /\ mixer_volume = Clamp(VolTarget(last.arg, VolumeRead))

C1_Witness ==
    /\ last.op = "vol"
    /\ last.arg = "+10"
    /\ before.volume = 95
    /\ calls = <<Call("mixer.get_volume", 95), Call("mixer.set_volume", 100)>>

\* C2: whatever the commands and events, every value passed to the player's
\* set_volume is an integer between 0 and 100.
C2_SetVolumeInRange ==
    \A i \in DOMAIN calls :
        IsSetVolume(calls[i]) => calls[i].value \in 0..100

C2_Witness ==
    /\ last.op = "vol"
    /\ last.arg = "=101"
    /\ calls = <<Call("mixer.set_volume", 100)>>

\* a malformed volume payload as the claim lists them
MalformedVol(value) ==
    \/ Len(value) < 2
    \/ Char(value, 1) \notin {"=", "-", "+"}
    \/ \E i \in 2..Len(value) : Char(value, i) \notin Digits

\* C3: a malformed volume payload makes no set_volume call, leaves the player
\* volume unchanged and logs a warning.
C3_MalformedVolIgnored ==
    (last.op = "vol" /\ MalformedVol(last.arg)) =>
        /\ SetVolumeCalls(calls) = <<>>
        /\ mixer_volume = before.volume
        /\ \E i \in DOMAIN log : log[i].level = "warn"

\* C4: no command handler lets an exception escape, whatever the command and
\* its payload.
C4_NoHandlerRaises ==
    last.op \in CommandOps => raised = "none"

\* C5: after the failure hook has run the failure is logged and the bus
\* connection is closed; no lifecycle ends with the connection open.
C5_FailureStopsBus ==
    /\ last.op = "on_failure" => \E i \in DOMAIN log : log[i].level = "error"
    /\ actor \in {"stopped", "failed"} => ~bus.open

\* C6: once on_stop has completed, a command makes no call on the player and
\* an event publishes nothing.
C6_PostStopSilence ==
    (actor = "stopped" /\ last.op \in CommandOps \cup EventOps) =>
        /\ calls = <<>>
        /\ published = <<>>

\* C7: the bus is started exactly once, in on_start, before any command is
\* dispatched or event published; it is stopped at most once, in on_stop, after
\* it was started; it is never open again after the stop.
C7_Lifecycle ==
    /\ bus.starts <= 1
    /\ bus.stops <= bus.starts
    /\ bus.starts = 1 <=> actor # "created"
    /\ bus.stops = 1 <=> actor = "stopped"
    /\ last.op \in CommandOps \cup QueryOps \cup EventOps => bus.starts = 1
    /\ bus.stops = 1 => ~bus.open
    /\ bus.open => bus.starts = 1

C7_Witness ==
    /\ actor = "stopped"
    /\ bus = [open |-> FALSE, starts |-> 1, stops |-> 1]
    /\ last.op \in CommandOps

ToggleMethod(state) ==
    CASE state = PLAYING -> "playback.pause"
      [] state = PAUSED -> "playback.resume"
      [] state = STOPPED -> "playback.play"

IsStateQuery(c) == c.call = "playback.get_state"
StateAnswers(cs) == SelectSeq(cs, IsStateQuery)

\* the player was in this state every time the handler asked
PlayerStateWas(state) ==
    LET answers == StateAnswers(calls)
    IN  /\ answers # <<>>
        /\ \A i \in DOMAIN answers : answers[i].value = state

\* C8: plb toggle invokes exactly pause() on a player it finds playing, resume()
\* on one it finds paused and play() on one it finds stopped, no other playback
\* method, and publishes nothing; what it finds is the player's state at each of
\* its queries.
C8_Toggle ==
    (last.op \in {"plb", "plb:query"} /\ last.arg = "toggle") =>
        /\ StateAnswers(calls) # <<>>
        /\ published = <<>>
        /\ Len(PlaybackControlCalls(calls)) <= 1
        /\ last.op = "plb:query" =>
               /\ StateAnswers(calls)[Len(StateAnswers(calls))].value = before.state
               /\ PlaybackControlCalls(calls) = <<>>
        /\ last.op = "plb" =>
               \A state \in PlaybackState :
                   PlayerStateWas(state) =>
                       PlaybackControlCalls(calls) = <<Call(ToggleMethod(state), "")>>

C8_Witness ==
    /\ last.op = "plb"
    /\ last.arg = "toggle"
    /\ before.state = PAUSED
    /\ calls = <<Call("playback.get_state", PAUSED), Call("playback.get_state", PAUSED),
                 Call("playback.resume", "")>>

PlbMethod(value) ==
    CASE value = "play" -> "playback.play"
      [] value = "stop" -> "playback.stop"
      [] value = "pause" -> "playback.pause"
      [] value = "resume" -> "playback.resume"
      [] value = "prev" -> "playback.previous"
      [] value = "next" -> "playback.next"

\* C9: an unrecognized plb payload invokes no player method, control or query,
\* and only logs a warning; a recognized payload other than toggle invokes
\* exactly its one player method.
C9_PlbValues ==
    last.op = "plb" =>
        IF last.arg \notin {"play", "stop", "pause", "resume", "toggle", "prev", "next"}
        THEN /\ calls = <<>>
             /\ published = <<>>
             /\ log = <<Warn("Unknown playback control action")>>
        ELSE last.arg # "toggle" => calls = <<Call(PlbMethod(last.arg), "")>>

C9_Witness ==
    /\ last.op = "plb"
    /\ last.arg = "PLAY"
    /\ before.state = PLAYING
    /\ calls = <<>>
    /\ log # <<>>

\* C10: a track-playback-started event publishes exactly one message, on trk,
\* carrying describe_track of the started track, and calls nothing on the player.
C10_TrackStarted ==
    last.op = "track_playback_started" =>
        /\ published = <<Msg("trk", describe_track(last.arg.track))>>
        /\ calls = <<>>

C10_Witness ==
    /\ last.op = "track_playback_started"
    /\ last.arg.track.uri = "u1"
    /\ Len(published) = 1
    /\ published[1].topic = "trk"

\* C11: a track-playback-ended event publishes exactly one message, on trk,
\* with an empty payload, whatever the track and the time position.
C11_TrackEnded ==
    last.op = "track_playback_ended" => published = <<Msg("trk", "")>>

C11_Witness ==
    /\ last.op = "track_playback_ended"
    /\ last.arg.track.name = "n1"
    /\ Len(published) = 1
    /\ published[1].payload = ""

\* the text is the decimal writing of n
IsDecimalOf(text, n) ==
    /\ Len(text) > 0
    /\ \A i \in 1..Len(text) : Char(text, i) \in Digits
    /\ DecimalValue(text) = n

\* C13: inf state asks the player its state and publishes exactly one message,
\* on sta, carrying the answer; inf volume asks its volume and publishes exactly
\* one, on vol, carrying the answer as text; both leave the player's state,
\* volume and queue as they were.
C13_InfStateVolume ==
    /\ last.op = "inf:query" =>
           /\ calls = IF last.arg = "state"
                      THEN <<Call("playback.get_state", before.state)>>
                      ELSE <<Call("mixer.get_volume", before.volume)>>
           /\ published = <<>>
           /\ Player = before
    /\ (last.op = "inf" /\ last.arg = "state") =>
           /\ Len(calls) = 1
           /\ calls[1].call = "playback.get_state"
           /\ published = <<Msg("sta", calls[1].value)>>
           /\ Player = before
    /\ (last.op = "inf" /\ last.arg = "volume") =>
           /\ Len(calls) = 1
           /\ calls[1].call = "mixer.get_volume"
           /\ Len(published) = 1
           /\ published[1].topic = "vol"
           /\ IsDecimalOf(published[1].payload, calls[1].value)
           /\ Player = before

C13_Witness ==
    /\ last.op = "inf"
    /\ last.arg = "volume"
    /\ calls = <<Call("mixer.get_volume", 95)>>
    /\ published = <<Msg("vol", "95")>>

IsTracklistCall(c) == c.call \in {"tracklist.add", "tracklist.clear"}
TracklistCalls(cs) == SelectSeq(cs, IsTracklistCall)

\* C14: add with an empty payload makes no call on the queue, leaves it
\* unchanged and logs a warning; add with a non-empty payload makes one
\* tracklist.add call that appends that URI after the entries already queued.
C14_Add ==
    last.op = "add" =>
        IF last.arg = ""
        THEN /\ TracklistCalls(calls) = <<>>
             /\ tracklist = before.tracklist
             /\ \E i \in DOMAIN log : log[i].level = "warn"
        ELSE /\ calls = <<Call("tracklist.add", last.arg)>>
             /\ tracklist = before.tracklist \o <<last.arg>>

C14_Witness ==
    /\ last.op = "add"
    /\ last.arg = "u2"
    /\ before.tracklist = <<"u1">>
    /\ tracklist = <<"u1", "u2">>

PublishingCommand == last.op = "inf" /\ last.arg \in {"state", "volume"}

\* C15: a malformed, rejected or unimplemented command publishes nothing; of all
\* the commands only inf state and inf volume publish.
C15_FailuresSilent ==
    /\ last.op \in QueryOps => published = <<>>
    /\ last.op \in CommandOps =>
           /\ ~PublishingCommand => published = <<>>
           /\ (log # <<>> \/ raised # "none") => published = <<>>
           /\ PublishingCommand => Len(published) = 1

C15_Witness ==
    /\ last.op = "add"
    /\ last.arg = ""
    /\ log # <<>>
    /\ published = <<>>

\* C16: loa with any payload, src and inf queue leave the player's queue,
\* volume and playback state as they were; loa never clears the queue.
C16_UnimplementedNoEffect ==
    (\/ last.op \in {"loa", "src"}
     \/ last.op = "inf" /\ last.arg = "queue") =>
        /\ Player = before
        /\ TracklistCalls(calls) = <<>>

IsMixerCall(c) == c.call \in {"mixer.get_volume", "mixer.set_volume"}
IsPlaybackCall(c) == IsPlaybackControl(c) \/ c.call = "playback.get_state"
IsReadCall(c) == c.call \in {"mixer.get_volume", "playback.get_state"}
AllCalls(cs, Test(_)) == \A i \in DOMAIN cs : Test(cs[i])

\* C19: plb calls only playback methods and changes neither volume nor queue;
\* vol calls only the mixer and changes neither playback state nor queue; add
\* and clr call only the tracklist and clr empties the queue whatever its
\* payload; inf state and inf volume only read; the event callbacks call no
\* player method.
C19_Frame ==
    /\ last.op = "plb" =>
           /\ AllCalls(calls, IsPlaybackCall)
           /\ mixer_volume = before.volume
           /\ tracklist = before.tracklist
    /\ last.op = "vol" =>
           /\ AllCalls(calls, IsMixerCall)
           /\ playback_state = before.state
           /\ tracklist = before.tracklist
    /\ last.op \in {"add", "clr"} =>
           /\ AllCalls(calls, IsTracklistCall)
           /\ mixer_volume = before.volume
           /\ playback_state = before.state
    /\ last.op = "clr" =>
           /\ calls = <<Call("tracklist.clear", "")>>
           /\ tracklist = <<>>
    /\ (PublishingCommand \/ last.op \in QueryOps) =>
           /\ AllCalls(calls, IsReadCall)
           /\ Player = before
    /\ last.op \in EventOps =>
           /\ calls = <<>>
           /\ Player = before

C19_Witness ==
    /\ last.op = "clr"
    /\ last.arg = "x"
    /\ before.tracklist = <<"u1", "u2">>
    /\ tracklist = <<>>

\* the message the event table gives the event
IsEventMessage(m, ev) ==
    CASE ev.op = "playback_state_changed" -> m = Msg("sta", ev.arg)
      [] ev.op = "track_playback_started" -> m = Msg("trk", describe_track(ev.arg.track))
      [] ev.op = "track_playback_ended" -> m = Msg("trk", "")
      [] ev.op = "volume_changed" ->
             m.topic = "vol" /\ IsDecimalOf(m.payload, ev.arg)
      [] ev.op = "stream_title_changed" -> m = Msg("trk", describe_stream(ev.arg))

\* C12: the messages published for a run of core events are as many as the
\* events and in their order, the i-th being the one the event table gives the
\* i-th event; nothing is held back and nothing is merged.
C12_OneMessagePerEvent ==
    /\ Len(outbox) = Len(events)
    /\ \A i \in DOMAIN events : IsEventMessage(outbox[i], events[i])

C12_Witness ==
    /\ Len(events) = 3
    /\ events[1] = events[2]
    /\ events[1].op = "volume_changed"
    /\ events[3].op = "stream_title_changed"
    /\ outbox = <<Msg("vol", "50"), Msg("vol", "50"), Msg("trk", describe_stream(""))>>

\* C17: plb toggle invokes exactly one of pause(), resume() and play() and
\* never ends in the unknown-action warning, whatever the player does between
\* the handler's state queries.
C17_ToggleAlwaysActs ==
    (last.op = "plb" /\ last.arg = "toggle") =>
        /\ Len(PlaybackControlCalls(calls)) = 1
        /\ log = <<>>

\* C18: the value a "+N" or "-N" command writes is clamp(V' +/- N, 0, 100) for
\* the volume V' the player holds at the moment of the write.
C18_RelativeVolumeAtomic ==
    (/\ last.op = "vol"
     /\ WellFormedVol(last.arg)
     /\ Char(last.arg, 1) \in {"+", "-"}) =>
        SetVolumeCalls(calls) =
            <<Call("mixer.set_volume", Clamp(VolTarget(last.arg, before.volume)))>>

====
